---- MODULE Spec2Model ----
(***************************************************************************)
(* Products REST API: the product model, the repository over the document *)
(* store, the service's lifecycle rules and the router's status mapping,   *)
(* as a state machine of interleaved requests.                             *)
(*                                                                         *)
(* A request suspends only at its document-store calls, so every action is *)
(* one stretch of a handler between two suspension points: the store call  *)
(* that resumes it together with the synchronous code that follows.        *)
(***************************************************************************)
EXTENDS Integers, Sequences, FiniteSets, TLC

\* ---------------------------------------------------------------- bounds
\* Number of distinct values uuid4() can return.
NumIds == 2
\* Largest reading of the clock; readings are 0..MaxClock and never decrease.
MaxClock == 1
\* Number of requests that can be suspended at a store call at one time.
MaxInFlight == 2
\* Number of requests a run admits to a store write (create, update, delete
\* that pass their checks); reads and rejected requests are not counted.
MaxRequests == 3

Ids == 1..NumIds
Slots == 1..MaxInFlight

\* ------------------------------------------------------ program constants
NameMaxLen == 200
CategoryMaxLen == 100
DescriptionMaxLen == 1000
HTTP_200_OK == 200
HTTP_201_CREATED == 201
HTTP_400_BAD_REQUEST == 400
HTTP_404_NOT_FOUND == 404
HTTP_410_GONE == 410
HTTP_422_UNPROCESSABLE == 422
HTTP_500_INTERNAL_SERVER_ERROR == 500

\* ------------------------------------------------------------ Optional[T]
\* Python's None and a present value: an Optional is a set of at most one value.
None == {}
Some(v) == {v}
Val(o) == CHOOSE v \in o : TRUE

\* ------------------------------------------------------------------ text
\* A str is a sequence of one-character strings.
IsSpace(c) == c = " "

RECURSIVE LStrip(_)
LStrip(s) == IF s # <<>> /\ IsSpace(Head(s)) THEN LStrip(Tail(s)) ELSE s

RECURSIVE RStrip(_)
RStrip(s) ==
    IF s # <<>> /\ IsSpace(s[Len(s)]) THEN RStrip(SubSeq(s, 1, Len(s) - 1)) ELSE s

\* str.strip()
Strip(s) == RStrip(LStrip(s))

\* ------------------------------------------------- typed values and strings
\* A UUID object and a datetime object are tagged values; their string forms
\* carry the tag "str", which is what isinstance(x, str) tests.
UUID(i) == <<"UUID", i>>
Datetime(t) == <<"datetime", t>>
IsStr(x) == x[1] = "str"
\* str(uuid) and UUID(string)
UUIDToStr(u) == <<"str", "uuid", u[2]>>
UUIDFromStr(s) == <<"UUID", s[3]>>
\* datetime.isoformat() and datetime.fromisoformat(string)
IsoFormat(d) == <<"str", "iso", d[2]>>
FromIsoFormat(s) == <<"datetime", s[3]>>

\* ------------------------------------------------------- the product model
\* Mutant of ProductInit: the description is not stored.
ProductInit_DropsDescription(name, category, price, stock, description, id, created_at, updated_at, deleted_at, uuid4, utcnow1, utcnow2) ==
    [id |-> IF id # None THEN Val(id) ELSE UUID(uuid4),
     name |-> name,
     description |-> None,
     category |-> category,
     price |-> price,
     stock |-> stock,
     created_at |-> IF created_at # None THEN Val(created_at) ELSE Datetime(utcnow1),
     updated_at |-> IF updated_at # None THEN Val(updated_at) ELSE Datetime(utcnow2),
     deleted_at |-> deleted_at]

\* Mutant of ProductInit: updated_at takes the first reading of the clock
\* and created_at the second.
ProductInit_SwappedReadings(name, category, price, stock, description, id, created_at, updated_at, deleted_at, uuid4, utcnow1, utcnow2) ==
    [id |-> IF id # None THEN Val(id) ELSE UUID(uuid4),
     name |-> name,
     description |-> description,
     category |-> category,
     price |-> price,
     stock |-> stock,
     created_at |-> IF created_at # None THEN Val(created_at) ELSE Datetime(utcnow2),
     updated_at |-> IF updated_at # None THEN Val(updated_at) ELSE Datetime(utcnow1),
     deleted_at |-> deleted_at]

\* Product.__init__: id, created_at, updated_at are Optionals; uuid4() and the
\* two utcnow() readings are used only where the argument is falsy (absent).
ProductInit(name, category, price, stock, description, id, created_at, updated_at, deleted_at, uuid4, utcnow1, utcnow2) ==
    [id |-> IF id # None THEN Val(id) ELSE UUID(uuid4),
     name |-> name,
     description |-> description,
     category |-> category,
     price |-> price,
     stock |-> stock,
     created_at |-> IF created_at # None THEN Val(created_at) ELSE Datetime(utcnow1),
     updated_at |-> IF updated_at # None THEN Val(updated_at) ELSE Datetime(utcnow2),
     deleted_at |-> deleted_at]

\* Mutant of to_dict: deletedAt is never serialized.
to_dict_DropsDeletedAt(p) ==
    [id |-> UUIDToStr(p.id),
     name |-> p.name,
     description |-> p.description,
     category |-> p.category,
     price |-> p.price,
     stock |-> p.stock,
     createdAt |-> IsoFormat(p.created_at),
     updatedAt |-> IsoFormat(p.updated_at),
     deletedAt |-> None]

\* Mutant of to_dict: createdAt is serialized from updated_at.
to_dict_CreatedFromUpdated(p) ==
    [id |-> UUIDToStr(p.id),
     name |-> p.name,
     description |-> p.description,
     category |-> p.category,
     price |-> p.price,
     stock |-> p.stock,
     createdAt |-> IsoFormat(p.updated_at),
     updatedAt |-> IsoFormat(p.updated_at),
     deletedAt |-> IF p.deleted_at # None THEN Some(IsoFormat(Val(p.deleted_at))) ELSE None]

\* Product.to_dict
to_dict(p) ==
    [id |-> UUIDToStr(p.id),
     name |-> p.name,
     description |-> p.description,
     category |-> p.category,
     price |-> p.price,
     stock |-> p.stock,
     createdAt |-> IsoFormat(p.created_at),
     updatedAt |-> IsoFormat(p.updated_at),
     deletedAt |-> IF p.deleted_at # None THEN Some(IsoFormat(Val(p.deleted_at))) ELSE None]

\* data.get(key): None when the key is missing
DictGet(d, k) == IF k \in DOMAIN d THEN d[k] ELSE None

\* Mutant of from_dict: deletedAt is taken as stored, never parsed.
from_dict_DeletedAtNotParsed(data) ==
    ProductInit(
        data.name,
        data.category,
        data.price,
        data.stock,
        DictGet(data, "description"),
        Some(IF IsStr(data.id) THEN UUIDFromStr(data.id) ELSE data.id),
        Some(IF IsStr(data.createdAt) THEN FromIsoFormat(data.createdAt)
             ELSE data.createdAt),
        Some(IF IsStr(data.updatedAt) THEN FromIsoFormat(data.updatedAt)
             ELSE data.updatedAt),
        DictGet(data, "deletedAt"),
        0, 0, 0)

\* Product.from_dict. The document's Optional fields (description, deletedAt)
\* are Optionals; id and the timestamps are parsed only when they are strings.
from_dict(data) ==
    ProductInit(
        data.name,
        data.category,
        data.price,
        data.stock,
        DictGet(data, "description"),
        Some(IF IsStr(data.id) THEN UUIDFromStr(data.id) ELSE data.id),
        Some(IF IsStr(data.createdAt) THEN FromIsoFormat(data.createdAt)
             ELSE data.createdAt),
        Some(IF IsStr(data.updatedAt) THEN FromIsoFormat(data.updatedAt)
             ELSE data.updatedAt),
        IF DictGet(data, "deletedAt") # None /\ IsStr(Val(data.deletedAt))
        THEN Some(FromIsoFormat(Val(data.deletedAt)))
        ELSE DictGet(data, "deletedAt"),
        0, 0, 0)

\* Product.soft_delete: two readings of the clock, deleted_at first.
soft_delete(p, utcnow1, utcnow2) ==
    [p EXCEPT !.deleted_at = Some(Datetime(utcnow1)),
              !.updated_at = Datetime(utcnow2)]

\* Product.is_deleted
is_deleted(p) == p.deleted_at # None

\* Mutant of update: description is assigned without the None check.
update_DescriptionAlwaysAssigned(p, name, description, category, price, stock, utcnow) ==
    [p EXCEPT !.name = IF name # None THEN Val(name) ELSE @,
              !.description = description,
              !.category = IF category # None THEN Val(category) ELSE @,
              !.price = IF price # None THEN Val(price) ELSE @,
              !.stock = IF stock # None THEN Val(stock) ELSE @,
              !.updated_at = Datetime(utcnow)]

\* Product.update: every argument is an Optional; None leaves the field alone.
update(p, name, description, category, price, stock, utcnow) ==
    [p EXCEPT !.name = IF name # None THEN Val(name) ELSE @,
              !.description = IF description # None THEN description ELSE @,
              !.category = IF category # None THEN Val(category) ELSE @,
              !.price = IF price # None THEN Val(price) ELSE @,
              !.stock = IF stock # None THEN Val(stock) ELSE @,
              !.updated_at = Datetime(utcnow)]

\* --------------------------------------------------------- request schemas
\* Mutant of ProductCreate: stock has no ge=0 constraint.
ProductCreate_StockUnchecked(b) ==
    /\ Len(b.name) >= 1 /\ Len(b.name) <= NameMaxLen
    /\ (b.description # None => Len(Val(b.description)) <= DescriptionMaxLen)
    /\ Len(b.category) >= 1 /\ Len(b.category) <= CategoryMaxLen
    /\ b.price > 0

\* ProductCreate: Field constraints of the five fields (all present in a body).
ProductCreate(b) ==
    /\ Len(b.name) >= 1 /\ Len(b.name) <= NameMaxLen
    /\ (b.description # None => Len(Val(b.description)) <= DescriptionMaxLen)
    /\ Len(b.category) >= 1 /\ Len(b.category) <= CategoryMaxLen
    /\ b.price > 0
    /\ b.stock >= 0

\* Mutant of validate_non_empty_strings: the validator accepts every value.
validate_non_empty_strings_AcceptsAll(v) == TRUE

\* ProductUpdate.validate_non_empty_strings
validate_non_empty_strings(v) == ~(v # None /\ Strip(Val(v)) = <<>>)

\* Mutant of ProductUpdate: price is checked with ge=0 instead of gt=0.
ProductUpdate_PriceNotStrict(b) ==
    /\ "name" \in DOMAIN b =>
          /\ (b.name # None => Len(Val(b.name)) >= 1 /\ Len(Val(b.name)) <= NameMaxLen)
          /\ validate_non_empty_strings(b.name)
    /\ "description" \in DOMAIN b =>
          /\ (b.description # None => Len(Val(b.description)) <= DescriptionMaxLen)
          /\ validate_non_empty_strings(b.description)
    /\ "category" \in DOMAIN b =>
          /\ (b.category # None =>
                Len(Val(b.category)) >= 1 /\ Len(Val(b.category)) <= CategoryMaxLen)
          /\ validate_non_empty_strings(b.category)
    /\ "price" \in DOMAIN b => (b.price # None => Val(b.price) >= 0)
    /\ "stock" \in DOMAIN b => (b.stock # None => Val(b.stock) >= 0)

\* ProductUpdate: a JSON body is a function from the fields it sets to
\* Optionals (an explicit null is a set field whose value is None).
ProductUpdate(b) ==
    /\ "name" \in DOMAIN b =>
          /\ (b.name # None => Len(Val(b.name)) >= 1 /\ Len(Val(b.name)) <= NameMaxLen)
          /\ validate_non_empty_strings(b.name)
    /\ "description" \in DOMAIN b =>
          /\ (b.description # None => Len(Val(b.description)) <= DescriptionMaxLen)
          /\ validate_non_empty_strings(b.description)
    /\ "category" \in DOMAIN b =>
          /\ (b.category # None =>
                Len(Val(b.category)) >= 1 /\ Len(Val(b.category)) <= CategoryMaxLen)
          /\ validate_non_empty_strings(b.category)
    /\ "price" \in DOMAIN b => (b.price # None => Val(b.price) > 0)
    /\ "stock" \in DOMAIN b => (b.stock # None => Val(b.stock) >= 0)

\* The parsed ProductUpdate object: every field has a value (None by default)
\* and the object remembers which fields the body set.
UpdateFields == {"name", "description", "category", "price", "stock"}
ParseUpdate(b) ==
    [values |-> [f \in UpdateFields |-> IF f \in DOMAIN b THEN b[f] ELSE None],
     fields_set |-> DOMAIN b]

\* product_data.model_dump(exclude_unset=True): only the fields that were set
model_dump(m) == [f \in m.fields_set |-> m.values[f]]

\* ------------------------------------------------------------- exceptions
ProductNotFoundException(id) == <<"Product with id '", id, "' not found">>
ProductAlreadyDeletedException(id) == <<"Product with id '", id, "' has been deleted">>
ProductValidationException(message) == message
DatabaseException(message) == <<"Database error: ", message>>

\* ------------------------------------------------------ the document store
\* The collection is the sequence of its documents in insertion order.
\* Positions of the documents a query on "id" matches.
Matching(coll, id) == {k \in 1..Len(coll) : coll[k].id = id}

\* Mutant of DuplicateKey: the index on "id" is not unique.
DuplicateKey_NoUniqueIndex(coll, doc) == FALSE

\* insert_one under the unique index on "id": raises on a duplicate key.
DuplicateKey(coll, doc) == Matching(coll, doc.id) # {}
insert_one(coll, doc) == Append(coll, doc)

\* find_one({"id": id}): the first matching document, or None
find_one(coll, id) ==
    IF Matching(coll, id) = {} THEN None
    ELSE Some(coll[CHOOSE k \in Matching(coll, id) : \A j \in Matching(coll, id) : k <= j])

\* find(query): query {} matches every document, {"deletedAt": None} those
\* whose deletedAt is null
IsActiveDoc(doc) == doc.deletedAt = None

find(coll, include_deleted) ==
    IF include_deleted THEN coll ELSE SelectSeq(coll, IsActiveDoc)

\* delete_one({"id": id}): removes the first match; the collection left and
\* the deleted_count.
delete_one(coll, id) ==
    IF Matching(coll, id) = {} THEN [coll |-> coll, deleted_count |-> 0]
    ELSE LET k == CHOOSE k \in Matching(coll, id) : \A j \in Matching(coll, id) : k <= j
         IN [coll |-> SubSeq(coll, 1, k - 1) \o SubSeq(coll, k + 1, Len(coll)),
             deleted_count |-> 1]

\* count_documents({"id": id})
count_documents(coll, id) == Cardinality(Matching(coll, id))

\* Mutant of update_one: the call is made with upsert=True.
update_one_Upsert(coll, id, document) ==
    IF Matching(coll, id) = {} THEN Append(coll, document)
    ELSE LET k == CHOOSE k \in Matching(coll, id) : \A j \in Matching(coll, id) : k <= j
         IN [coll EXCEPT ![k] =
                [f \in DOMAIN coll[k] \cup DOMAIN document |->
                    IF f \in DOMAIN document THEN document[f] ELSE coll[k][f]]]

\* Mutant of update_one: the filter is empty, so the first document of the
\* collection is the one updated.
update_one_EmptyFilter(coll, id, document) ==
    IF coll = <<>> THEN coll
    ELSE [coll EXCEPT ![1] =
             [f \in DOMAIN coll[1] \cup DOMAIN document |->
                 IF f \in DOMAIN document THEN document[f] ELSE coll[1][f]]]

\* Mutant of update_one: the filter matches no document.
update_one_FilterMatchesNothing(coll, id, document) == coll

\* update_one({"id": id}, {"$set": document}): sets the document's fields in
\* the first match; no match writes nothing
update_one(coll, id, document) ==
    IF Matching(coll, id) = {} THEN coll
    ELSE LET k == CHOOSE k \in Matching(coll, id) : \A j \in Matching(coll, id) : k <= j
         IN [coll EXCEPT ![k] =
                [f \in DOMAIN coll[k] \cup DOMAIN document |->
                    IF f \in DOMAIN document THEN document[f] ELSE coll[k][f]]]

\* ProductRepository.find_all: the deserialized products of the query
RECURSIVE MapFromDict(_)
MapFromDict(docs) ==
    IF docs = <<>> THEN <<>> ELSE <<from_dict(Head(docs))>> \o MapFromDict(Tail(docs))

find_all(coll, include_deleted) == MapFromDict(find(coll, include_deleted))

\* ProductRepository.find_by_id: Optional[Product]
find_by_id(coll, product_id) ==
    IF find_one(coll, UUIDToStr(product_id)) # None
    THEN Some(from_dict(Val(find_one(coll, UUIDToStr(product_id)))))
    ELSE None

\* ProductResponse(**product.to_dict()) on the wire: the strings are parsed
\* into a UUID and datetimes and serialized back as JSON strings.
ProductResponse(d) ==
    [id |-> UUIDToStr(UUIDFromStr(d.id)),
     name |-> d.name,
     description |-> d.description,
     category |-> d.category,
     price |-> d.price,
     stock |-> d.stock,
     createdAt |-> IsoFormat(FromIsoFormat(d.createdAt)),
     updatedAt |-> IsoFormat(FromIsoFormat(d.updatedAt)),
     deletedAt |-> IF d.deletedAt # None
                   THEN Some(IsoFormat(FromIsoFormat(Val(d.deletedAt)))) ELSE None]

\* [ProductResponse(**p.to_dict()) for p in products]
RECURSIVE MapToResponse(_)
MapToResponse(products) ==
    IF products = <<>> THEN <<>>
    ELSE <<ProductResponse(to_dict(Head(products)))>> \o MapToResponse(Tail(products))

\* ------------------------------------------------- outcomes of a call
\* A call either returns a value or raises an exception carrying a message.
Return(v) == [exc |-> "none", message |-> <<>>, value |-> Some(v)]
Raise(exc, message) == [exc |-> exc, message |-> message, value |-> None]

\* What the driver reports when a store call fails.
DriverError == "connection failure"
DuplicateKeyError == "E11000 duplicate key error"

\* ProductRepository.create: serialize and insert_one; any exception of the
\* driver becomes a DatabaseException. `ok` is whether the driver call went
\* through. The value is the resulting collection and the call's outcome.
repository_create(coll, product, ok) ==
    IF ~ok
    THEN [coll |-> coll,
          out |-> Raise("DatabaseException",
                        DatabaseException(<<"Failed to create product: ", DriverError>>))]
    ELSE IF DuplicateKey(coll, to_dict(product))
    THEN [coll |-> coll,
          out |-> Raise("DatabaseException",
                        DatabaseException(<<"Failed to create product: ", DuplicateKeyError>>))]
    ELSE [coll |-> insert_one(coll, to_dict(product)), out |-> Return(product)]

\* ProductRepository.find_by_id with the driver's failure
repository_find_by_id(coll, product_id, ok) ==
    IF ~ok
    THEN Raise("DatabaseException",
               DatabaseException(<<"Failed to find product: ", DriverError>>))
    ELSE Return(find_by_id(coll, product_id))

\* ProductRepository.find_all with the driver's failure
repository_find_all(coll, include_deleted, ok) ==
    IF ~ok
    THEN Raise("DatabaseException",
               DatabaseException(<<"Failed to find products: ", DriverError>>))
    ELSE Return(find_all(coll, include_deleted))

\* Mutant of repository_update: the driver's exception is not caught.
repository_update_DriverErrorEscapes(coll, product, ok) ==
    IF ~ok
    THEN [coll |-> coll, out |-> Raise("PyMongoError", <<DriverError>>)]
    ELSE [coll |-> update_one(coll, UUIDToStr(product.id), to_dict(product)),
          out |-> Return(product)]

\* ProductRepository.update: serialize and update_one by the product's id
repository_update(coll, product, ok) ==
    IF ~ok
    THEN [coll |-> coll,
          out |-> Raise("DatabaseException",
                        DatabaseException(<<"Failed to update product: ", DriverError>>))]
    ELSE [coll |-> update_one(coll, UUIDToStr(product.id), to_dict(product)),
          out |-> Return(product)]

\* Mutant of repository_delete: the deleted_count is not consulted.
repository_delete_AlwaysTrue(coll, product_id, ok) ==
    IF ~ok
    THEN [coll |-> coll,
          out |-> Raise("DatabaseException",
                        DatabaseException(<<"Failed to delete product: ", DriverError>>))]
    ELSE [coll |-> delete_one(coll, UUIDToStr(product_id)).coll,
          out |-> Return(TRUE)]

\* ProductRepository.delete: the hard delete, delete_one by id
repository_delete(coll, product_id, ok) ==
    IF ~ok
    THEN [coll |-> coll,
          out |-> Raise("DatabaseException",
                        DatabaseException(<<"Failed to delete product: ", DriverError>>))]
    ELSE [coll |-> delete_one(coll, UUIDToStr(product_id)).coll,
          out |-> Return(delete_one(coll, UUIDToStr(product_id)).deleted_count > 0)]

\* ProductRepository.exists: count_documents by id
repository_exists(coll, product_id, ok) ==
    IF ~ok
    THEN Raise("DatabaseException",
               DatabaseException(<<"Failed to check product existence: ", DriverError>>))
    ELSE Return(count_documents(coll, UUIDToStr(product_id)) > 0)

\* ------------------------------------------------------------ the service
\* ProductService.get_product_by_id, given the outcome of find_by_id
get_product_by_id(found, product_id) ==
    IF found.exc # "none" THEN found
    ELSE IF Val(found.value) = None
    THEN Raise("ProductNotFoundException",
               ProductNotFoundException(UUIDToStr(product_id)))
    ELSE IF is_deleted(Val(Val(found.value)))
    THEN Raise("ProductAlreadyDeletedException",
               ProductAlreadyDeletedException(UUIDToStr(product_id)))
    ELSE Return(Val(Val(found.value)))

\* ProductService.get_all_products
get_all_products(coll, ok) == repository_find_all(coll, FALSE, ok)

\* Mutant of update_product_load: the is_deleted() check is missing.
update_product_load_NoDeletedCheck(found, product_id) ==
    IF found.exc # "none" THEN found
    ELSE IF Val(found.value) = None
    THEN Raise("ProductNotFoundException",
               ProductNotFoundException(UUIDToStr(product_id)))
    ELSE Return(Val(Val(found.value)))

\* ProductService.update_product up to the loaded product's checks
update_product_load(found, product_id) ==
    IF found.exc # "none" THEN found
    ELSE IF Val(found.value) = None
    THEN Raise("ProductNotFoundException",
               ProductNotFoundException(UUIDToStr(product_id)))
    ELSE IF is_deleted(Val(Val(found.value)))
    THEN Raise("ProductAlreadyDeletedException",
               ProductAlreadyDeletedException(UUIDToStr(product_id)))
    ELSE Return(Val(Val(found.value)))

\* Mutant of update_product_apply: a description the body sets to null is
\* assigned to the product.
update_product_apply_NullClearsDescription(product, product_data, utcnow) ==
    LET update_data == model_dump(product_data)
        updated == update(product,
                          DictGet(update_data, "name"),
                          DictGet(update_data, "description"),
                          DictGet(update_data, "category"),
                          DictGet(update_data, "price"),
                          DictGet(update_data, "stock"),
                          utcnow)
    IN IF "description" \in DOMAIN update_data /\ update_data["description"] = None
       THEN [updated EXCEPT !.description = None]
       ELSE updated

\* ProductService.update_product: the partial update of the loaded product
update_product_apply(product, product_data, utcnow) ==
    LET update_data == model_dump(product_data)
    IN update(product,
              DictGet(update_data, "name"),
              DictGet(update_data, "description"),
              DictGet(update_data, "category"),
              DictGet(update_data, "price"),
              DictGet(update_data, "stock"),
              utcnow)

\* Mutant of delete_product_load: the is_deleted() check is missing.
delete_product_load_NoDeletedCheck(found, product_id) ==
    IF found.exc # "none" THEN found
    ELSE IF Val(found.value) = None
    THEN Raise("ProductNotFoundException",
               ProductNotFoundException(UUIDToStr(product_id)))
    ELSE Return(Val(Val(found.value)))

\* ProductService.delete_product up to the loaded product's checks
delete_product_load(found, product_id) ==
    IF found.exc # "none" THEN found
    ELSE IF Val(found.value) = None
    THEN Raise("ProductNotFoundException",
               ProductNotFoundException(UUIDToStr(product_id)))
    ELSE IF is_deleted(Val(Val(found.value)))
    THEN Raise("ProductAlreadyDeletedException",
               ProductAlreadyDeletedException(UUIDToStr(product_id)))
    ELSE Return(Val(Val(found.value)))

\* ------------------------------------------------------------- the router
\* The exception kinds each handler names in its except clauses; every
\* other exception falls to its final `except Exception`.
ExceptClauses(op) ==
    CASE op = "create" -> {"ProductValidationException", "DatabaseException"}
      [] op = "list" -> {"DatabaseException"}
      [] op = "get" -> {"ProductNotFoundException", "ProductAlreadyDeletedException",
                        "DatabaseException"}
      [] op = "update" -> {"ProductNotFoundException", "ProductAlreadyDeletedException",
                           "ProductValidationException", "DatabaseException"}
      [] op = "delete" -> {"ProductNotFoundException", "ProductAlreadyDeletedException",
                           "DatabaseException"}

\* Mutant of ExceptionStatus: ProductAlreadyDeletedException answered 404.
ExceptionStatus_DeletedAsNotFound(op, exc) ==
    IF exc \notin ExceptClauses(op) THEN HTTP_500_INTERNAL_SERVER_ERROR
    ELSE CASE exc = "ProductNotFoundException" -> HTTP_404_NOT_FOUND
           [] exc = "ProductAlreadyDeletedException" -> HTTP_404_NOT_FOUND
           [] exc = "ProductValidationException" -> HTTP_400_BAD_REQUEST
           [] exc = "DatabaseException" -> HTTP_500_INTERNAL_SERVER_ERROR

\* The except clauses of a handler: the status of each exception kind.
ExceptionStatus(op, exc) ==
    IF exc \notin ExceptClauses(op) THEN HTTP_500_INTERNAL_SERVER_ERROR
    ELSE CASE exc = "ProductNotFoundException" -> HTTP_404_NOT_FOUND
           [] exc = "ProductAlreadyDeletedException" -> HTTP_410_GONE
           [] exc = "ProductValidationException" -> HTTP_400_BAD_REQUEST
           [] exc = "DatabaseException" -> HTTP_500_INTERNAL_SERVER_ERROR

\* detail=str(e) in the named clauses, the wrapped text in the final one.
ExceptionDetail(op, out) ==
    IF out.exc \in ExceptClauses(op)
    THEN out.message
    ELSE <<"An unexpected error occurred: ", out.message>>

\* A response: the operation and path id it answers, the request body it was
\* given, its status, its product, product list or error detail, and the
\* numbers of read and write calls made on the collection while handling it.
NoResponse ==
    [op |-> "none", product_id |-> None, body |-> None, status |-> 0,
     product |-> None, products |-> <<>>, total |-> 0, detail |-> None,
     health |-> None, reads |-> 0, writes |-> 0]

\* The response r of a request that made these numbers of store calls.
StoreCalls(r, reads, writes) == [r EXCEPT !.reads = reads, !.writes = writes]

ProductReply(op, product_id, body, status, product) ==
    [NoResponse EXCEPT !.op = op, !.product_id = product_id, !.body = body,
                       !.status = status,
                       !.product = Some(ProductResponse(to_dict(product)))]

ErrorReply(op, product_id, body, out) ==
    [NoResponse EXCEPT !.op = op, !.product_id = product_id, !.body = body,
                       !.status = ExceptionStatus(op, out.exc),
                       !.detail = Some(ExceptionDetail(op, out))]

\* The framework's answer to a body that fails its schema.
ValidationReply(op, product_id, body) ==
    [NoResponse EXCEPT !.op = op, !.product_id = product_id, !.body = body,
                       !.status = HTTP_422_UNPROCESSABLE,
                       !.detail = Some(<<"validation error">>)]

\* get_all_products: ProductListResponse(products=..., total=len(products))
ListReply(products) ==
    [NoResponse EXCEPT !.op = "list", !.status = HTTP_200_OK,
                       !.products = MapToResponse(products),
                       !.total = Len(products)]

\* The status code of each route's decorator (200 where none is given).
SuccessStatus(op) == IF op = "create" THEN HTTP_201_CREATED ELSE HTTP_200_OK

\* The try/except of a handler around its service call: the response to the
\* outcome `out` of that call.
Handler(op, product_id, out) ==
    IF out.exc # "none" THEN ErrorReply(op, product_id, None, out)
    ELSE IF op = "list" THEN ListReply(Val(out.value))
    ELSE ProductReply(op, product_id, None, SuccessStatus(op), Val(out.value))

\* settings.app_name and settings.app_version
app_name == "Products REST API"
app_version == "1.0.0"

\* Mutant of health_check: the status is reported as "ok".
health_check_StatusOk(coll) ==
    [status |-> "ok", service |-> app_name, version |-> app_version]

\* health_check: the body it returns. It reads the settings only; `coll`,
\* Database.collection at the time of the call, is not consulted.
health_check(coll) ==
    [status |-> "healthy", service |-> app_name, version |-> app_version]

\* The answer to GET /health: 200, the route's default status.
HealthReply(body) ==
    [NoResponse EXCEPT !.op = "health", !.status = HTTP_200_OK,
                       !.health = Some(body)]

\* ------------------------------------------------------- request payloads
Text(c) == <<c>>

\* Bodies of POST /products: one that passes the schema, one with a price
\* that is not positive, one with a negative stock.
CreateBodies ==
    {[name |-> Text("a"), description |-> Some(Text("d")), category |-> Text("c"),
      price |-> 1, stock |-> 0],
     [name |-> Text("a"), description |-> Some(Text("d")), category |-> Text("c"),
      price |-> 0, stock |-> 0],
     [name |-> Text("a"), description |-> Some(Text("d")), category |-> Text("c"),
      price |-> 1, stock |-> -1]}

\* Bodies of PUT /products/{id}: no field, a price, a name, an explicit null
\* description, and five the schema rejects (a price, a stock, a
\* whitespace-only name and category, an empty description).
UpdateBodies ==
    {[f \in {} |-> None],
     [price |-> Some(2)],
     [name |-> Some(Text("b"))],
     [description |-> None],
     [price |-> Some(0)],
     [stock |-> Some(-1)],
     [name |-> Some(Text(" "))],
     [category |-> Some(Text(" "))],
     [description |-> Some(<<>>)]}

\* --------------------------------------------------- the database manager
\* settings.mongodb_collection, and a client as AsyncIOMotorClient(...) makes it.
mongodb_collection == "products"
AsyncIOMotorClient == [closed |-> FALSE]

\* Database.connect_db up to its first await: the class attributes it sets.
connect_db == [client |-> Some(AsyncIOMotorClient), collection |-> Some(mongodb_collection)]

\* Database.close_db: closes the client if one is held; what it leaves in
\* the class attributes client and collection.
close_db(c, coll) ==
    [client |-> IF c # None THEN Some([Val(c) EXCEPT !.closed = TRUE]) ELSE c,
     collection |-> coll]

\* Database.get_collection
get_collection(coll) ==
    IF coll = None
    THEN Raise("RuntimeError", <<"Database not connected. Call connect_db() first.">>)
    ELSE Return(Val(coll))

\* lifespan: connect_db returned and the generator reaches its yield, or
\* connect_db raised and the startup failed.
lifespan_startup(ok) == IF ok THEN "serving" ELSE "failed"

\* ------------------------------------------------------------------ state
VARIABLES
    store,      \* the products collection: a sequence of documents
    now,        \* the latest reading of the clock
    req,        \* per slot, the request suspended at a store call
    resp,       \* the response the last step sent, NoResponse if none
    created,    \* ids of the products returned by a 201 so far
    deleted,    \* ids of the products returned by a DELETE's 200 so far
    admitted,   \* number of requests admitted to a store write so far
    overlapped, \* whether a request ever arrived while another was suspended
    client,     \* Database.client
    collection, \* Database.collection
    phase,      \* where the process is in its lifespan
    svc         \* a service call's outcome, handed to a handler on its own

vars ==
    <<store, now, req, resp, created, deleted, admitted, overlapped,
      client, collection, phase, svc>>

IdleRequest ==
    [pc |-> "idle", op |-> "none", product_id |-> None, body |-> None,
     product |-> None, reads |-> 0, writes |-> 0]

\* No request was handled yet.
NoTraffic ==
    /\ store = <<>>
    /\ now = 0
    /\ req = [s \in Slots |-> IdleRequest]
    /\ resp = NoResponse
    /\ created = {}
    /\ deleted = {}
    /\ admitted = 0
    /\ overlapped = FALSE

\* The server once its startup completed: connected and accepting requests.
Init ==
    /\ NoTraffic
    /\ client = connect_db.client
    /\ collection = connect_db.collection
    /\ phase = lifespan_startup(TRUE)
    /\ svc = None

\* The process before its lifespan starts.
LifeInit ==
    /\ NoTraffic
    /\ client = None
    /\ collection = None
    /\ phase = "start"
    /\ svc = None

\* A new request takes the lowest slot that holds no request.
FreeSlot(s) ==
    /\ req[s].pc = "idle"
    /\ \A q \in Slots : q < s => req[q].pc # "idle"

\* No request is suspended at a store call.
Quiescent == \A s \in Slots : req[s].pc = "idle"

\* A request arrives: it overlaps the requests suspended at that moment.
Arrival == overlapped' = (overlapped \/ ~Quiescent)

\* Mutant of Accepting: connect_db is not awaited before the yield.
Accepting_ConnectNotAwaited == phase \in {"connecting", "serving"}

\* The server accepts requests while lifespan is suspended at its yield,
\* after connect_db returned and until the shutdown begins.
Accepting == phase = "serving"

\* Depends(get_product_service): a request the server accepts gets its
\* service from the collection handle.
get_product_service ==
    /\ Accepting
    /\ get_collection(collection).exc = "none"
    /\ UNCHANGED <<client, collection, phase, svc>>

\* ------------------------------------------------------------ the actions
\* POST /products up to the insert_one call: the schema check, then
\* ProductService.create_product constructs the product (uuid4() and two
\* readings of the clock) and ProductRepository.create serializes it.
PostProduct(s) ==
    /\ FreeSlot(s)
    /\ Arrival
    /\ get_product_service
    /\ \E b \in CreateBodies :
          IF ~ProductCreate(b)
          THEN /\ resp' = ValidationReply("create", None, Some(b))
               /\ UNCHANGED <<store, now, req, created, deleted, admitted>>
          ELSE \E uuid4 \in Ids, utcnow1 \in now..MaxClock :
                 \E utcnow2 \in utcnow1..MaxClock :
                    /\ admitted < MaxRequests
                    /\ admitted' = admitted + 1
                    /\ req' = [req EXCEPT ![s] =
                                 [pc |-> "insert", op |-> "create",
                                  product_id |-> None, body |-> Some(b),
                                  product |-> Some(ProductInit(
                                      b.name, b.category, b.price, b.stock,
                                      b.description, None, None, None, None,
                                      uuid4, utcnow1, utcnow2)),
                                  reads |-> 0, writes |-> 1]]
                    /\ now' = utcnow2
                    /\ resp' = NoResponse
                    /\ UNCHANGED <<store, created, deleted>>

\* insert_one completes (or raises) and create_product answers.
InsertDone(s) ==
    /\ req[s].pc = "insert"
    /\ UNCHANGED <<overlapped, client, collection, phase, svc>>
    /\ \E ok \in BOOLEAN :
          LET r == repository_create(store, Val(req[s].product), ok)
          IN /\ store' = r.coll
             /\ IF r.out.exc = "none"
                THEN /\ resp' = StoreCalls(
                                    ProductReply("create", None, req[s].body,
                                                 HTTP_201_CREATED, Val(r.out.value)),
                                    req[s].reads, req[s].writes)
                     /\ created' = created \cup {Val(r.out.value).id}
                ELSE /\ resp' = StoreCalls(
                                    ErrorReply("create", None, req[s].body, r.out),
                                    req[s].reads, req[s].writes)
                     /\ created' = created
    /\ req' = [req EXCEPT ![s] = IdleRequest]
    /\ UNCHANGED <<now, deleted, admitted>>

\* GET /products/{id}: find_one, the service's checks and the answer.
GetProduct(s) ==
    /\ FreeSlot(s)
    /\ Arrival
    /\ get_product_service
    /\ \E i \in Ids, ok \in BOOLEAN :
          LET out == get_product_by_id(
                         repository_find_by_id(store, UUID(i), ok), UUID(i))
          IN resp' = StoreCalls(
                        IF out.exc = "none"
                        THEN ProductReply("get", Some(UUID(i)), None, HTTP_200_OK,
                                          Val(out.value))
                        ELSE ErrorReply("get", Some(UUID(i)), None, out),
                        1, 0)
    /\ UNCHANGED <<store, now, req, created, deleted, admitted>>

\* GET /products: find({"deletedAt": None}) and the list answer.
GetAllProducts(s) ==
    /\ FreeSlot(s)
    /\ Arrival
    /\ get_product_service
    /\ \E ok \in BOOLEAN :
          LET out == get_all_products(store, ok)
          IN resp' = StoreCalls(
                        IF out.exc = "none"
                        THEN ListReply(Val(out.value))
                        ELSE ErrorReply("list", None, None, out),
                        1, 0)
    /\ UNCHANGED <<store, now, req, created, deleted, admitted>>

\* PUT /products/{id} up to the loaded product: the schema check, find_one
\* and update_product's checks.
PutProduct(s) ==
    /\ FreeSlot(s)
    /\ Arrival
    /\ get_product_service
    /\ \E i \in Ids, b \in UpdateBodies, ok \in BOOLEAN :
          IF ~ProductUpdate(b)
          THEN /\ resp' = ValidationReply("update", Some(UUID(i)), Some(b))
               /\ UNCHANGED <<req, admitted>>
          ELSE LET out == update_product_load(
                              repository_find_by_id(store, UUID(i), ok), UUID(i))
               IN IF out.exc = "none"
                  THEN /\ admitted < MaxRequests
                       /\ admitted' = admitted + 1
                       /\ req' = [req EXCEPT ![s] =
                                    [pc |-> "loaded", op |-> "update",
                                     product_id |-> Some(UUID(i)),
                                     body |-> Some(b), product |-> out.value,
                                     reads |-> 1, writes |-> 0]]
                       /\ resp' = NoResponse
                  ELSE /\ resp' = StoreCalls(
                                      ErrorReply("update", Some(UUID(i)), None, out),
                                      1, 0)
                       /\ UNCHANGED <<req, admitted>>
    /\ UNCHANGED <<store, now, created, deleted>>

\* update_product resumes: product.update(...) reads the clock, and
\* ProductRepository.update serializes the product for update_one.
ApplyUpdate(s) ==
    /\ req[s].pc = "loaded"
    /\ UNCHANGED <<overlapped, client, collection, phase, svc>>
    /\ req[s].op = "update"
    /\ \E utcnow \in now..MaxClock :
          /\ req' = [req EXCEPT ![s].pc = "write",
                                ![s].product = Some(update_product_apply(
                                    Val(req[s].product),
                                    ParseUpdate(Val(req[s].body)), utcnow)),
                                ![s].writes = @ + 1]
          /\ now' = utcnow
    /\ resp' = NoResponse
    /\ UNCHANGED <<store, created, deleted, admitted>>

\* DELETE /products/{id} up to the loaded product: find_one and
\* delete_product's checks.
DeleteProduct(s) ==
    /\ FreeSlot(s)
    /\ Arrival
    /\ get_product_service
    /\ \E i \in Ids, ok \in BOOLEAN :
          LET out == delete_product_load(
                         repository_find_by_id(store, UUID(i), ok), UUID(i))
          IN IF out.exc = "none"
             THEN /\ admitted < MaxRequests
                  /\ admitted' = admitted + 1
                  /\ req' = [req EXCEPT ![s] =
                               [pc |-> "loaded", op |-> "delete",
                                product_id |-> Some(UUID(i)),
                                body |-> None, product |-> out.value,
                                reads |-> 1, writes |-> 0]]
                  /\ resp' = NoResponse
             ELSE /\ resp' = StoreCalls(
                                 ErrorReply("delete", Some(UUID(i)), None, out),
                                 1, 0)
                  /\ UNCHANGED <<req, admitted>>
    /\ UNCHANGED <<store, now, created, deleted>>

\* delete_product resumes: product.soft_delete() reads the clock twice.
ApplySoftDelete(s) ==
    /\ req[s].pc = "loaded"
    /\ UNCHANGED <<overlapped, client, collection, phase, svc>>
    /\ req[s].op = "delete"
    /\ \E utcnow1 \in now..MaxClock :
          \E utcnow2 \in utcnow1..MaxClock :
             /\ req' = [req EXCEPT ![s].pc = "write",
                                   ![s].product = Some(soft_delete(
                                       Val(req[s].product), utcnow1, utcnow2)),
                                   ![s].writes = @ + 1]
             /\ now' = utcnow2
    /\ resp' = NoResponse
    /\ UNCHANGED <<store, created, deleted, admitted>>

\* update_product's last line: return await self.repository.update(product)
update_product_write(coll, product, ok) == repository_update(coll, product, ok)

\* Mutant of delete_product_write: the product is removed by the hard delete.
delete_product_write_HardDelete(coll, product, ok) ==
    [coll |-> repository_delete(coll, product.id, ok).coll,
     out |-> IF ok THEN Return(product) ELSE repository_delete(coll, product.id, ok).out]

\* delete_product's last line: return await self.repository.update(product)
delete_product_write(coll, product, ok) == repository_update(coll, product, ok)

\* Mutant of UpdateDone: an update_one that raised is called again.
UpdateDone_RetryOnFailure(s) ==
    /\ req[s].pc = "write"
    /\ UNCHANGED <<overlapped, client, collection, phase, svc>>
    /\ \E ok \in BOOLEAN :
          LET r == IF req[s].op = "delete"
                   THEN delete_product_write(store, Val(req[s].product), ok)
                   ELSE update_product_write(store, Val(req[s].product), ok)
          IN /\ store' = r.coll
             /\ IF r.out.exc = "none"
                THEN /\ resp' = StoreCalls(
                                    ProductReply(req[s].op, req[s].product_id,
                                                 req[s].body, HTTP_200_OK,
                                                 Val(r.out.value)),
                                    req[s].reads, req[s].writes)
                     /\ deleted' = IF req[s].op = "delete"
                                   THEN deleted \cup {Val(req[s].product_id)}
                                   ELSE deleted
                     /\ req' = [req EXCEPT ![s] = IdleRequest]
                ELSE /\ resp' = NoResponse
                     /\ deleted' = deleted
                     /\ req' = [req EXCEPT ![s].writes = @ + 1]
    /\ UNCHANGED <<now, created, admitted>>

\* update_one completes (or raises) and update_product or delete_product
\* answers with the product it wrote.
UpdateDone(s) ==
    /\ req[s].pc = "write"
    /\ UNCHANGED <<overlapped, client, collection, phase, svc>>
    /\ \E ok \in BOOLEAN :
          LET r == IF req[s].op = "delete"
                   THEN delete_product_write(store, Val(req[s].product), ok)
                   ELSE update_product_write(store, Val(req[s].product), ok)
          IN /\ store' = r.coll
             /\ IF r.out.exc = "none"
                THEN /\ resp' = StoreCalls(
                                    ProductReply(req[s].op, req[s].product_id,
                                                 req[s].body, HTTP_200_OK,
                                                 Val(r.out.value)),
                                    req[s].reads, req[s].writes)
                     /\ deleted' = IF req[s].op = "delete"
                                   THEN deleted \cup {Val(req[s].product_id)}
                                   ELSE deleted
                ELSE /\ resp' = StoreCalls(
                                    ErrorReply(req[s].op, req[s].product_id,
                                               req[s].body, r.out),
                                    req[s].reads, req[s].writes)
                     /\ deleted' = deleted
    /\ req' = [req EXCEPT ![s] = IdleRequest]
    /\ UNCHANGED <<now, created, admitted>>

\* GET /health: health_check has no await and no dependency; it answers as
\* soon as the server accepts the request.
HealthCheck ==
    /\ Accepting
    /\ Arrival
    /\ resp' = HealthReply(health_check(collection))
    /\ UNCHANGED <<store, now, req, created, deleted, admitted,
                   client, collection, phase, svc>>

\* Requests interleave at their store calls.
Next ==
    \/ HealthCheck
    \/ \E s \in Slots :
       \/ PostProduct(s)
       \/ GetProduct(s)
       \/ GetAllProducts(s)
       \/ PutProduct(s)
       \/ DeleteProduct(s)
       \/ InsertDone(s)
       \/ ApplyUpdate(s)
       \/ ApplySoftDelete(s)
       \/ UpdateDone(s)

Spec == Init /\ [][Next]_vars

\* Requests handled one at a time: a request arrives only when no other
\* request is suspended.
SeqNext ==
    \/ Quiescent /\ HealthCheck
    \/ \E s \in Slots :
       \/ Quiescent /\ PostProduct(s)
       \/ Quiescent /\ GetProduct(s)
       \/ Quiescent /\ GetAllProducts(s)
       \/ Quiescent /\ PutProduct(s)
       \/ Quiescent /\ DeleteProduct(s)
       \/ InsertDone(s)
       \/ ApplyUpdate(s)
       \/ ApplySoftDelete(s)
       \/ UpdateDone(s)

SeqSpec == Init /\ [][SeqNext]_vars

\* The event loop resumes every task whose awaited store call has returned
\* or raised, and every store call does one or the other.
Resumes ==
    \A s \in Slots :
       /\ WF_vars(InsertDone(s))
       /\ WF_vars(ApplyUpdate(s))
       /\ WF_vars(ApplySoftDelete(s))
       /\ WF_vars(UpdateDone(s))

FairSpec == Init /\ [][Next]_vars /\ Resumes

\* ------------------------------------------------- the handlers on their own
\* What a service call can hand its handler: a product (or a list), one of
\* the four exceptions of the application, or any other exception.
Messages == {<<"invalid">>, <<"boom">>}

SampleProducts ==
    {ProductInit(Text("a"), Text("c"), 1, 0, Some(Text("d")), Some(UUID(i)),
                 Some(Datetime(0)), Some(Datetime(t)), d, i, 0, 0) :
        i \in Ids, t \in 0..MaxClock, d \in {None, Some(Datetime(0))}}

RaisedOutcomes ==
    {Raise("ProductNotFoundException",
           ProductNotFoundException(UUIDToStr(UUID(i)))) : i \in Ids}
    \cup {Raise("ProductAlreadyDeletedException",
                ProductAlreadyDeletedException(UUIDToStr(UUID(i)))) : i \in Ids}
    \cup {Raise("ProductValidationException", ProductValidationException(m)) :
             m \in Messages}
    \cup {Raise("DatabaseException", DatabaseException(m)) : m \in Messages}
    \cup {Raise("RuntimeError", m) : m \in Messages}

RouterInit ==
    /\ NoTraffic
    /\ client = connect_db.client
    /\ collection = connect_db.collection
    /\ phase = lifespan_startup(TRUE)
    /\ \E op \in {"create", "list", "get", "update", "delete"}, i \in Ids :
          LET product_id == IF op \in {"create", "list"} THEN None ELSE Some(UUID(i))
          IN \/ \E out \in RaisedOutcomes :
                   svc = Some([op |-> op, product_id |-> product_id, out |-> out])
             \/ /\ op = "list"
                /\ \E p \in SampleProducts :
                      svc = Some([op |-> op, product_id |-> product_id,
                                  out |-> Return(<<p>>)])
             \/ /\ op # "list"
                /\ \E p \in SampleProducts :
                      svc = Some([op |-> op, product_id |-> product_id,
                                  out |-> Return(p)])

\* The handler answers the outcome of its service call.
HandleOutcome ==
    /\ svc # None
    /\ resp = NoResponse
    /\ resp' = Handler(Val(svc).op, Val(svc).product_id, Val(svc).out)
    /\ UNCHANGED <<store, now, req, created, deleted, admitted, overlapped,
                   client, collection, phase, svc>>

RouterNext == HandleOutcome

RouterSpec == RouterInit /\ [][RouterNext]_vars

\* ------------------------------------------------ the repository on its own
\* The operations of ProductRepository called directly on the collection,
\* in any order and with any product, the hard delete and exists included.
\* svc holds the call just made: its operation, arguments, whether the
\* driver call went through, and its outcome.
RepoCall(op, product_id, product, include_deleted, ok, out) ==
    Some([op |-> op, product_id |-> product_id, product |-> product,
          include_deleted |-> include_deleted, ok |-> ok, out |-> out])

RepoInit ==
    /\ NoTraffic
    /\ client = connect_db.client
    /\ collection = connect_db.collection
    /\ phase = lifespan_startup(TRUE)
    /\ svc = None

RepoFrame ==
    /\ resp' = NoResponse
    /\ UNCHANGED <<now, req, created, deleted, admitted, overlapped,
                   client, collection, phase>>

RepoCreate ==
    /\ \E p \in SampleProducts, ok \in BOOLEAN :
          /\ store' = repository_create(store, p, ok).coll
          /\ svc' = RepoCall("create", None, Some(p), FALSE, ok,
                             repository_create(store, p, ok).out)
    /\ RepoFrame

RepoFindById ==
    /\ \E i \in Ids, ok \in BOOLEAN :
          svc' = RepoCall("find_by_id", Some(UUID(i)), None, FALSE, ok,
                          repository_find_by_id(store, UUID(i), ok))
    /\ store' = store
    /\ RepoFrame

RepoFindAll ==
    /\ \E include_deleted \in BOOLEAN, ok \in BOOLEAN :
          svc' = RepoCall("find_all", None, None, include_deleted, ok,
                          repository_find_all(store, include_deleted, ok))
    /\ store' = store
    /\ RepoFrame

RepoUpdate ==
    /\ \E p \in SampleProducts, ok \in BOOLEAN :
          /\ store' = repository_update(store, p, ok).coll
          /\ svc' = RepoCall("update", None, Some(p), FALSE, ok,
                             repository_update(store, p, ok).out)
    /\ RepoFrame

RepoDelete ==
    /\ \E i \in Ids, ok \in BOOLEAN :
          /\ store' = repository_delete(store, UUID(i), ok).coll
          /\ svc' = RepoCall("delete", Some(UUID(i)), None, FALSE, ok,
                             repository_delete(store, UUID(i), ok).out)
    /\ RepoFrame

RepoExists ==
    /\ \E i \in Ids, ok \in BOOLEAN :
          svc' = RepoCall("exists", Some(UUID(i)), None, FALSE, ok,
                          repository_exists(store, UUID(i), ok))
    /\ store' = store
    /\ RepoFrame

RepoNext ==
    \/ RepoCreate
    \/ RepoFindById
    \/ RepoFindAll
    \/ RepoUpdate
    \/ RepoDelete
    \/ RepoExists

RepoSpec == RepoInit /\ [][RepoNext]_vars

\* ---------------------------------------------------------- the lifespan
\* The frame of a lifespan step: it handles no request.
NoRequestStep ==
    /\ resp' = NoResponse
    /\ UNCHANGED <<store, now, req, created, deleted, admitted, overlapped, svc>>

\* Startup: lifespan awaits connect_db, which sets client and collection
\* and suspends at create_index.
LifespanStartup ==
    /\ phase = "start"
    /\ client' = connect_db.client
    /\ collection' = connect_db.collection
    /\ phase' = "connecting"
    /\ NoRequestStep

\* The create_index calls complete, or one raises out of connect_db.
LifespanYield ==
    /\ phase = "connecting"
    /\ \E ok \in BOOLEAN : phase' = lifespan_startup(ok)
    /\ UNCHANGED <<client, collection>>
    /\ NoRequestStep

\* The server stops accepting requests; those in flight run to completion.
ServerShutdown ==
    /\ phase = "serving"
    /\ phase' = "draining"
    /\ UNCHANGED <<client, collection>>
    /\ NoRequestStep

\* Shutdown: lifespan resumes after its yield and awaits close_db.
LifespanShutdown ==
    /\ phase = "draining"
    /\ Quiescent
    /\ client' = close_db(client, collection).client
    /\ collection' = close_db(client, collection).collection
    /\ phase' = "stopped"
    /\ NoRequestStep

LifeNext ==
    \/ LifespanStartup
    \/ LifespanYield
    \/ ServerShutdown
    \/ LifespanShutdown
    \/ HealthCheck
    \/ \E s \in Slots :
          \/ PostProduct(s)
          \/ GetProduct(s)
          \/ GetAllProducts(s)
          \/ PutProduct(s)
          \/ DeleteProduct(s)
          \/ InsertDone(s)
          \/ ApplyUpdate(s)
          \/ ApplySoftDelete(s)
          \/ UpdateDone(s)

LifeSpec == LifeInit /\ [][LifeNext]_vars

\* ------------------------------------------------- vocabulary of the claims
\* The stored document of an id (an Optional), and whether it is marked deleted.
StoredDoc(i) == find_one(store, UUIDToStr(UUID(i)))
StoredDeleted(i) == StoredDoc(i) # None /\ Val(StoredDoc(i)).deletedAt # None

\* The operations that address a product by the id in the path.
ByIdOps == {"get", "update", "delete"}

\* A response of the service: not the schema's 422 and not a store failure.
FromService(r) ==
    r.status \notin {HTTP_422_UNPROCESSABLE, HTTP_500_INTERNAL_SERVER_ERROR}

\* ---------------------------------------------------------------- claims

\* C1: once the stored document of an id has deletedAt set, it has deletedAt
\* set in every later state, under any interleaving of requests.
C1_DeletedIsTerminal ==
    [][\A i \in Ids : StoredDeleted(i) => StoredDeleted(i)']_vars

\* C2: with requests handled one at a time, a created product is not deleted;
\* after a successful Delete the stored product is deleted, and every later
\* Get, Update or Delete of that id that reaches the service and whose store
\* call goes through fails with AlreadyDeleted (410); none succeeds.
C2_Step ==
    /\ (resp'.op = "create" /\ resp'.status = HTTP_201_CREATED) =>
          /\ Val(resp'.product).deletedAt = None
          /\ \E i \in Ids :
                /\ UUIDToStr(UUID(i)) = Val(resp'.product).id
                /\ find_by_id(store', UUID(i)) # None
                /\ ~is_deleted(Val(find_by_id(store', UUID(i))))
    /\ (resp'.op = "delete" /\ resp'.status = HTTP_200_OK) =>
          /\ Val(resp'.product).deletedAt # None
          /\ is_deleted(Val(find_by_id(store', Val(resp'.product_id))))
    /\ (resp'.op \in ByIdOps /\ Val(resp'.product_id) \in deleted) =>
          /\ resp'.status # HTTP_200_OK
          /\ FromService(resp') =>
                /\ resp'.status = HTTP_410_GONE
                /\ resp'.detail = Some(ProductAlreadyDeletedException(
                                           UUIDToStr(Val(resp'.product_id))))

C2_Lifecycle == [][C2_Step]_vars

\* C2's case: an Update of a product deleted earlier is answered 410.
C2_Witness ==
    /\ resp.op = "update"
    /\ resp.status = HTTP_410_GONE
    /\ Val(resp.product_id) \in deleted

\* C3: after N successful Creates of which K products were then soft-deleted
\* (a successful Delete), the listing holds exactly the N-K created and not
\* deleted products, each once and none with deletedAt set, and total is the
\* length of the list.
C3_ListingExcludesDeleted ==
    (resp.op = "list" /\ resp.status = HTTP_200_OK) =>
       /\ \A k \in 1..Len(resp.products) : resp.products[k].deletedAt = None
       /\ Len(resp.products) = Cardinality(created) - Cardinality(deleted)
       /\ {resp.products[k].id : k \in 1..Len(resp.products)}
             = {UUIDToStr(u) : u \in created \ deleted}
       /\ resp.total = Len(resp.products)

\* C4: Get, Update and Delete of an id never created fail with NotFound
\* (404), and of an id created and then deleted (a Delete of it succeeded
\* before the request arrived) fail with AlreadyDeleted (410); each message
\* names the id, the two differ, and neither status is given in the other
\* case. A request is answered at its arrival unless it is admitted to write.
C4_Step ==
    /\ (req' = req /\ resp'.op \in ByIdOps /\ FromService(resp')) =>
          LET u == Val(resp'.product_id)
          IN /\ u \notin created =>
                   /\ resp'.status = HTTP_404_NOT_FOUND
                   /\ resp'.detail = Some(ProductNotFoundException(UUIDToStr(u)))
             /\ u \in deleted =>
                   /\ resp'.status = HTTP_410_GONE
                   /\ resp'.detail
                         = Some(ProductAlreadyDeletedException(UUIDToStr(u)))
             /\ resp'.status = HTTP_404_NOT_FOUND => u \notin created
             /\ resp'.status = HTTP_410_GONE => u \in deleted
             /\ ProductNotFoundException(UUIDToStr(u))
                   # ProductAlreadyDeletedException(UUIDToStr(u))
    /\ \A s \in Slots :
          (req[s].pc = "idle" /\ req'[s].pc = "loaded") =>
             Val(req'[s].product_id) \in created \ deleted

C4_NotFoundVersusDeleted == [][C4_Step]_vars

\* C5: an Update that succeeds loads the stored document, sets exactly the
\* fields among name, description, category, price, stock that the body gives
\* a value, sets updated_at to the clock's reading (whatever the body holds),
\* keeps every other field and id, created_at, deleted_at as loaded, and writes
\* and returns that product.
C5_Step ==
    \A s \in Slots :
       /\ (req[s].pc = "idle" /\ req'[s].pc = "loaded" /\ req'[s].op = "update") =>
             Some(to_dict(Val(req'[s].product)))
                = StoredDoc(Val(req'[s].product_id)[2])
       /\ (req[s].pc = "loaded" /\ req[s].op = "update" /\ req'[s].pc = "write") =>
             LET old == Val(req[s].product)
                 new == Val(req'[s].product)
                 b == Val(req[s].body)
                 given(f) == f \in DOMAIN b /\ b[f] # None
             IN /\ new.name = IF given("name") THEN Val(b.name) ELSE old.name
                /\ new.description
                      = IF given("description") THEN b.description ELSE old.description
                /\ new.category
                      = IF given("category") THEN Val(b.category) ELSE old.category
                /\ new.price = IF given("price") THEN Val(b.price) ELSE old.price
                /\ new.stock = IF given("stock") THEN Val(b.stock) ELSE old.stock
                /\ new.id = old.id
                /\ new.created_at = old.created_at
                /\ new.deleted_at = old.deleted_at
                /\ new.updated_at = Datetime(now')
                /\ now' >= now
       /\ (req[s].pc = "write" /\ req[s].op = "update" /\ req'[s].pc = "idle"
           /\ resp'.status = HTTP_200_OK) =>
             /\ resp'.op = "update"
             /\ resp'.product = Some(to_dict(Val(req[s].product)))
             /\ \A i \in Ids :
                   i = Val(req[s].product_id)[2] =>
                      StoredDoc(i)' = Some(to_dict(Val(req[s].product)))

C5_PartialUpdateFrame == [][C5_Step]_vars

\* C5's case: an Update giving only a price succeeded; the name, description
\* and stock are those of the Create and updatedAt moved on.
C5_Witness ==
    /\ resp.op = "update"
    /\ resp.status = HTTP_200_OK
    /\ DOMAIN Val(resp.body) = {"price"}
    /\ Val(resp.product).price = 2
    /\ Val(resp.product).name = Text("a")
    /\ Val(resp.product).description = Some(Text("d"))
    /\ Val(resp.product).updatedAt # Val(resp.product).createdAt

\* C6: every stored document, and every product a request is about to write,
\* has price > 0 and stock >= 0; a request whose body carries a price <= 0 or
\* a stock < 0 is answered 422 and writes nothing.
C6_Violates(r) ==
    /\ r.body # None
    /\ IF r.op = "create"
       THEN Val(r.body).price <= 0 \/ Val(r.body).stock < 0
       ELSE \E f \in {"price", "stock"} \cap DOMAIN Val(r.body) :
               /\ Val(r.body)[f] # None
               /\ IF f = "price" THEN Val(Val(r.body)[f]) <= 0
                  ELSE Val(Val(r.body)[f]) < 0

C6_Inv ==
    /\ \A k \in 1..Len(store) : store[k].price > 0 /\ store[k].stock >= 0
    /\ \A s \in Slots :
          req[s].product # None =>
             Val(req[s].product).price > 0 /\ Val(req[s].product).stock >= 0
    /\ C6_Violates(resp) => resp.status = HTTP_422_UNPROCESSABLE

C6_Step == C6_Violates(resp') => (store' = store /\ req' = req)

C6_PriceStockInvariant == []C6_Inv /\ [][C6_Step]_vars

\* C6's case: an Update with a negative stock is rejected while a product is
\* stored and another Update of it is suspended.
C6_Witness ==
    /\ resp.op = "update"
    /\ resp.status = HTTP_422_UNPROCESSABLE
    /\ "stock" \in DOMAIN Val(resp.body)
    /\ StoredDoc(Val(resp.product_id)[2]) # None
    /\ \E s \in Slots : req[s].op = "update" /\ req[s].pc = "write"

\* C7: a create request with price <= 0 or stock < 0 is answered 422, no
\* product is constructed for it (no request is suspended at the store with
\* such a body) and the store is unchanged.
C7_Step ==
    /\ (resp'.op = "create" /\ resp'.body # None
        /\ (Val(resp'.body).price <= 0 \/ Val(resp'.body).stock < 0)) =>
          /\ resp'.status = HTTP_422_UNPROCESSABLE
          /\ store' = store
          /\ req' = req
          /\ created' = created
    /\ \A s \in Slots :
          req'[s].op = "create" =>
             Val(req'[s].body).price > 0 /\ Val(req'[s].body).stock >= 0

C7_InvalidCreateRejected == [][C7_Step]_vars

\* C7's case: a create with a negative stock is answered 422 with a product
\* already stored.
C7_Witness ==
    /\ resp.op = "create"
    /\ resp.status = HTTP_422_UNPROCESSABLE
    /\ Val(resp.body).stock < 0
    /\ Len(store) > 0

\* C8: no two stored documents share an id; a Create whose id is already
\* stored when insert_one runs fails with a DatabaseException (500) and leaves
\* the store unchanged.
C8_Unique == \A j, k \in 1..Len(store) : store[j].id = store[k].id => j = k

C8_Step ==
    \A s \in Slots :
       (req[s].pc = "insert" /\ req'[s].pc = "idle"
        /\ StoredDoc(Val(req[s].product).id[2]) # None) =>
          /\ resp'.op = "create"
          /\ resp'.status = HTTP_500_INTERNAL_SERVER_ERROR
          /\ Val(resp'.detail)[1] = "Database error: "
          /\ store' = store
          /\ created' = created

C8_UniqueIds == []C8_Unique /\ [][C8_Step]_vars

\* C8's case: of two overlapping Creates that drew the same id, the second
\* insert fails on the duplicate key.
C8_Witness ==
    /\ resp.op = "create"
    /\ resp.status = HTTP_500_INTERNAL_SERVER_ERROR
    /\ resp.detail = Some(DatabaseException(
                              <<"Failed to create product: ", DuplicateKeyError>>))
    /\ overlapped
    /\ Len(store) = 1

\* C9: no step changes the id or the createdAt of a stored document, and no
\* document leaves the store.
C9_Step ==
    \A k \in 1..Len(store) :
       /\ k <= Len(store')
       /\ store'[k].id = store[k].id
       /\ store'[k].createdAt = store[k].createdAt

C9_IdAndCreatedAtImmutable == [][C9_Step]_vars

\* C9's case: a stored product that was updated at a later reading of the
\* clock and then soft-deleted.
C9_Witness ==
    \E k \in 1..Len(store) :
       /\ store[k].price = 2
       /\ store[k].deletedAt # None
       /\ store[k].updatedAt # store[k].createdAt

\* C10: with a clock that never goes backwards, every stored document and
\* every product held by a request has updated_at >= created_at.
C10_UpdatedNotBeforeCreated ==
    /\ \A k \in 1..Len(store) :
          FromIsoFormat(store[k].updatedAt)[2] >= FromIsoFormat(store[k].createdAt)[2]
    /\ \A s \in Slots :
          req[s].product # None =>
             Val(req[s].product).updated_at[2] >= Val(req[s].product).created_at[2]

\* C10's case: an Update and a Delete of the same product are both about to
\* write it, with different updated_at.
C10_Witness ==
    \E s, q \in Slots :
       /\ req[s].pc = "write" /\ req[s].op = "update"
       /\ req[q].pc = "write" /\ req[q].op = "delete"
       /\ req[s].product_id = req[q].product_id
       /\ Val(req[s].product).updated_at # Val(req[q].product).updated_at

\* C11: a successful Delete returns and stores a product whose deletedAt
\* equals its updatedAt, and soft_delete gives the product it marks one
\* instant for both, whatever the clock does meanwhile.
C11_DeletedAtIsUpdatedAt ==
    /\ (resp.op = "delete" /\ resp.status = HTTP_200_OK) =>
          /\ Val(resp.product).deletedAt = Some(Val(resp.product).updatedAt)
          /\ StoredDoc(Val(resp.product_id)[2]) = resp.product
    /\ \A s \in Slots :
          (req[s].op = "delete" /\ req[s].pc = "write") =>
             Val(req[s].product).deleted_at = Some(Val(req[s].product).updated_at)

\* C12: get_collection returns a handle only between a Connect and the next
\* Close: it raises the not-connected RuntimeError before connect_db was ever
\* called and after close_db was called, and after close_db neither a client
\* nor a collection handle is held.
C12_HandleOnlyWhileConnected ==
    /\ phase = "start" =>
          get_collection(collection)
             = Raise("RuntimeError",
                     <<"Database not connected. Call connect_db() first.">>)
    /\ phase \in {"connecting", "serving", "draining"} =>
          get_collection(collection) = Return(mongodb_collection)
    /\ phase = "stopped" =>
          /\ get_collection(collection)
                = Raise("RuntimeError",
                        <<"Database not connected. Call connect_db() first.">>)
          /\ client = None
          /\ collection = None

\* C13: every request is accepted after the startup connect_db completed and
\* before the shutdown began, and is handled with the client open; close_db
\* runs only once the server stopped accepting requests; and a process whose
\* startup connect_db failed never handles a request.
C13_Step ==
    /\ \A s \in Slots :
          (req[s].pc = "idle" /\ req'[s].pc # "idle") => phase = "serving"
    /\ (req' = req /\ resp' # NoResponse) => phase = "serving"
    /\ (req' # req \/ resp' # NoResponse \/ store' # store) =>
          /\ phase \in {"serving", "draining"}
          /\ phase' = phase
          /\ client = Some(AsyncIOMotorClient)
          /\ collection = Some(mongodb_collection)
    /\ client' # client =>
          \/ phase = "start" /\ NoTraffic
          \/ phase = "draining" /\ phase' = "stopped" /\ Quiescent
    /\ phase \in {"stopped", "failed"} => phase' = phase
    /\ phase' = "failed" =>
          /\ phase \in {"connecting", "failed"}
          /\ NoTraffic'

C13_LifespanBrackets == [][C13_Step]_vars

\* C13's case: the process served requests between its startup and its
\* shutdown and has closed the client.
C13_Witness ==
    /\ phase = "stopped"
    /\ Val(client).closed
    /\ created # {}
    /\ deleted # {}

\* C14: an Update admitted to write (it loaded the product while active)
\* succeeds whenever its update_one goes through, whatever was written to
\* the product since it loaded, and the stored document is then the full
\* document this writer holds: of two overlapping Updates the last
\* update_one wins, stale values included.
C14_Step ==
    \A s \in Slots :
       (req[s].pc = "write" /\ req[s].op = "update" /\ req'[s].pc = "idle") =>
          /\ resp'.op = "update"
          /\ resp'.status \in {HTTP_200_OK, HTTP_500_INTERNAL_SERVER_ERROR}
          /\ resp'.status = HTTP_500_INTERNAL_SERVER_ERROR => store' = store
          /\ resp'.status = HTTP_200_OK =>
                \A k \in 1..Len(store) :
                   store'[k] = IF store[k].id = UUIDToStr(Val(req[s].product_id))
                               THEN to_dict(Val(req[s].product))
                               ELSE store[k]
          /\ \A q \in Slots \ {s} : req'[q] = req[q]

C14_LastWriteWins == [][C14_Step]_vars

\* C14's case: two Updates of one product both loaded it before either
\* wrote; the one giving a price has written and was answered 200, and the
\* one giving a name is about to write the price it loaded.
C14_Witness ==
    \E s \in Slots :
       /\ req[s].pc = "write"
       /\ req[s].op = "update"
       /\ DOMAIN Val(req[s].body) = {"name"}
       /\ Val(req[s].product).name = Text("b")
       /\ Val(req[s].product).price = 1
       /\ resp.op = "update"
       /\ resp.status = HTTP_200_OK
       /\ resp.product_id = req[s].product_id
       /\ Val(resp.product).price = 2
       /\ StoredDoc(Val(resp.product_id)[2]) = resp.product

\* C15: a handler maps the outcome of its service call to exactly one
\* status: success to 200 (201 for Create), NotFound to 404 and
\* AlreadyDeleted to 410 for Get, Update and Delete by id, and
\* DatabaseException to 500, each with the message of the error as detail;
\* Update maps a ProductValidationException to 400 with its message; every
\* other error maps to 500 with "An unexpected error occurred: <message>".
C15_Unexpected(out) == Some(<<"An unexpected error occurred: ", out.message>>)

C15_Common(op, out) ==
    /\ resp.op = op
    /\ out.exc = "none" =>
          /\ resp.status = IF op = "create" THEN HTTP_201_CREATED ELSE HTTP_200_OK
          /\ resp.detail = None
    /\ (op \in ByIdOps /\ out.exc = "ProductNotFoundException") =>
          resp.status = HTTP_404_NOT_FOUND /\ resp.detail = Some(out.message)
    /\ (op \in ByIdOps /\ out.exc = "ProductAlreadyDeletedException") =>
          resp.status = HTTP_410_GONE /\ resp.detail = Some(out.message)
    /\ out.exc = "DatabaseException" =>
          /\ resp.status = HTTP_500_INTERNAL_SERVER_ERROR
          /\ resp.detail = Some(out.message)
    /\ (op \in ByIdOps /\ out.exc = "RuntimeError") =>
          /\ resp.status = HTTP_500_INTERNAL_SERVER_ERROR
          /\ resp.detail = C15_Unexpected(out)
    /\ (op \in {"get", "delete"} /\ out.exc = "ProductValidationException") =>
          /\ resp.status = HTTP_500_INTERNAL_SERVER_ERROR
          /\ resp.detail = C15_Unexpected(out)

C16_Kept == {"id", "name", "description", "category", "price", "stock", "createdAt"}

C16_Step ==
    \A s \in Slots :
       /\ (req[s].pc = "loaded" /\ req[s].op = "delete" /\ req'[s].pc = "write") =>
             LET old == Val(req[s].product)
                 new == Val(req'[s].product)
             IN /\ \A f \in {"id", "name", "description", "category", "price",
                             "stock", "created_at"} : new[f] = old[f]
                /\ new.deleted_at # None
       /\ (req[s].pc = "write" /\ req[s].op = "delete" /\ req'[s].pc = "idle"
           /\ resp'.status = HTTP_200_OK) =>
             LET product == Val(req[s].product)
             IN /\ Len(store') = Len(store)
                /\ find_by_id(store', product.id) = Some(product)
                /\ \E k \in 1..Len(find_all(store', TRUE)) :
                      find_all(store', TRUE)[k] = product
                /\ \A k \in 1..Len(find_all(store', FALSE)) :
                      find_all(store', FALSE)[k].id # product.id
                /\ resp'.op = "delete"
                /\ resp'.product = Some(to_dict(product))
                /\ Val(resp'.product).deletedAt # None
                /\ \A i \in Ids :
                      (UUID(i) = product.id /\ ~overlapped) =>
                         /\ StoredDoc(i) # None
                         /\ \A f \in C16_Kept :
                               Val(StoredDoc(i)')[f] = Val(StoredDoc(i))[f]

C16_SoftDeleteKeepsDocument == [][C16_Step]_vars

\* C16's case: a product whose price was updated is deleted: the response
\* and the stored document carry the updated price and deletedAt.
C16_Witness ==
    /\ resp.op = "delete"
    /\ resp.status = HTTP_200_OK
    /\ Val(resp.product).price = 2
    /\ Val(resp.product).deletedAt # None
    /\ StoredDoc(Val(resp.product_id)[2]) = resp.product

\* C17: a successful Create answers 201 with a product that echoes the name,
\* description, category, price and stock of the body, has an id no stored
\* document had, and no deletedAt, and stores it; as long as no Delete of it
\* succeeded, a Get of its id that reaches the store answers 200 with that
\* id, and a listing holds its id.
C17_Step ==
    /\ (resp'.op = "create" /\ resp'.status = HTTP_201_CREATED) =>
          LET b == Val(resp'.body)
              doc == Val(resp'.product)
          IN /\ doc.name = b.name
             /\ doc.description = b.description
             /\ doc.category = b.category
             /\ doc.price = b.price
             /\ doc.stock = b.stock
             /\ doc.deletedAt = None
             /\ \A k \in 1..Len(store) : store[k].id # doc.id
             /\ store' = Append(store, doc)
             /\ UUIDFromStr(doc.id) \in created' \ created
    /\ (resp'.op = "get" /\ FromService(resp')
        /\ Val(resp'.product_id) \in created \ deleted) =>
          /\ resp'.status = HTTP_200_OK
          /\ Val(resp'.product).id = UUIDToStr(Val(resp'.product_id))
          /\ Val(resp'.product).deletedAt = None
    /\ (resp'.op = "list" /\ resp'.status = HTTP_200_OK) =>
          \A u \in created \ deleted :
             \E k \in 1..Len(resp'.products) : resp'.products[k].id = UUIDToStr(u)

C17_CreateThenVisible == [][C17_Step]_vars

\* C17's case: a Get of a product created and not deleted, while another
\* product was deleted, answers 200.
C17_Witness ==
    /\ resp.op = "get"
    /\ resp.status = HTTP_200_OK
    /\ Val(resp.product_id) \in created \ deleted
    /\ deleted # {}
    /\ Val(resp.product).name = Text("a")
    /\ Val(resp.product).description = Some(Text("d"))

\* C18: no request removes a document: every id with a stored document
\* keeps one in every later state, and the store never gets shorter.
C18_Step ==
    /\ Len(store') >= Len(store)
    /\ \A i \in Ids : StoredDoc(i) # None => StoredDoc(i)' # None

C18_NoDocumentRemoved == [][C18_Step]_vars

\* C18's case: of two stored products one was deleted by a DELETE answered
\* 200, and both documents are still stored.
C18_Witness ==
    /\ Len(store) = 2
    /\ resp.op = "delete"
    /\ resp.status = HTTP_200_OK
    /\ Val(resp.product_id) \in deleted
    /\ StoredDeleted(Val(resp.product_id)[2])

\* C19: for every product a request holds and every stored document,
\* from_dict(to_dict(p)) = p in all nine fields (an absent deleted_at stays
\* absent), to_dict(from_dict(d)) = d, from_dict of the document with its id
\* and timestamps already typed equals from_dict of the string forms, and a
\* document without a deletedAt key deserializes like one whose deletedAt
\* is None.
C19_Typed(d) ==
    [d EXCEPT !.id = UUIDFromStr(@),
              !.createdAt = FromIsoFormat(@),
              !.updatedAt = FromIsoFormat(@),
              !.deletedAt = IF @ # None THEN Some(FromIsoFormat(Val(@))) ELSE None]

C19_Fields ==
    {"id", "name", "description", "category", "price", "stock",
     "created_at", "updated_at", "deleted_at"}

C19_RoundTrip ==
    /\ \A s \in Slots :
          req[s].product # None =>
             LET p == Val(req[s].product)
             IN /\ DOMAIN from_dict(to_dict(p)) = C19_Fields
                /\ \A f \in C19_Fields : from_dict(to_dict(p))[f] = p[f]
                /\ from_dict(C19_Typed(to_dict(p))) = from_dict(to_dict(p))
                /\ from_dict(to_dict(from_dict(to_dict(p)))) = p
    /\ \A k \in 1..Len(store) :
          /\ to_dict(from_dict(store[k])) = store[k]
          /\ from_dict(C19_Typed(store[k])) = from_dict(store[k])
          /\ store[k].deletedAt = None =>
                /\ from_dict(store[k]).deleted_at = None
                /\ from_dict([f \in DOMAIN store[k] \ {"deletedAt"} |-> store[k][f]])
                      = from_dict(store[k])

\* C19's case: a deleted document is stored, deserialized with a typed
\* deleted_at, while a request holds a product that has no deleted_at and
\* serializes without one.
C19_Witness ==
    /\ \E k \in 1..Len(store) :
          /\ store[k].deletedAt # None
          /\ from_dict(store[k]).deleted_at = Some(FromIsoFormat(Val(store[k].deletedAt)))
          /\ from_dict(store[k]).deleted_at # store[k].deletedAt
    /\ \E s \in Slots :
          /\ req[s].product # None
          /\ Val(req[s].product).deleted_at = None
          /\ to_dict(Val(req[s].product)).deletedAt = None
          /\ to_dict(Val(req[s].product)).id # Val(req[s].product).id

\* C20: an update request in which name, category or description is present
\* with an empty or whitespace-only value is answered 422 without reaching
\* the service (no request is suspended with such a body) and the store is
\* unchanged; a request that gives none of the three and no bad price or
\* stock is not answered 422, and the update leaves the three as loaded.
C20_Strings == {"name", "category", "description"}

C20_Blank(b) ==
    \E f \in C20_Strings \cap DOMAIN b : b[f] # None /\ Strip(Val(b[f])) = <<>>

C20_Step ==
    /\ (resp'.op = "update" /\ resp'.body # None /\ C20_Blank(Val(resp'.body))) =>
          /\ resp'.status = HTTP_422_UNPROCESSABLE
          /\ store' = store
          /\ req' = req
    /\ \A s \in Slots : req'[s].op = "update" => ~C20_Blank(Val(req'[s].body))
    /\ (resp'.op = "update" /\ resp'.status = HTTP_422_UNPROCESSABLE) =>
          \/ C20_Blank(Val(resp'.body))
          \/ C6_Violates(resp')
    /\ \A s \in Slots :
          (req[s].pc = "loaded" /\ req[s].op = "update" /\ req'[s].pc = "write") =>
             \A f \in C20_Strings \ DOMAIN Val(req[s].body) :
                Val(req'[s].product)[f] = Val(req[s].product)[f]

C20_BlankStringsRejected == [][C20_Step]_vars

\* C20's case: an Update of a stored product with an empty description is
\* answered 422 while an Update that gives only a price is suspended, admitted.
C20_Witness ==
    /\ resp.op = "update"
    /\ resp.status = HTTP_422_UNPROCESSABLE
    /\ Val(resp.body) = [description |-> Some(<<>>)]
    /\ StoredDoc(Val(resp.product_id)[2]) # None
    /\ \E s \in Slots :
          /\ req[s].op = "update"
          /\ DOMAIN Val(req[s].body) = {"price"}
          /\ Val(req[s].product).name = Text("a")

\* C21: GET /health answers 200 with status "healthy" whenever the server is
\* past its startup connect_db and accepting requests, whatever documents
\* are stored or marked deleted and whatever requests are suspended: the
\* request is answered in every such state, every answer to it is this one,
\* and answering it changes neither the store nor any request.
C21_Healthy(r) ==
    /\ r.status = HTTP_200_OK
    /\ r.health = Some([status |-> "healthy", service |-> app_name,
                        version |-> app_version])

C21_Inv ==
    (phase = "serving" /\ collection # None) => ENABLED HealthCheck

C21_Step ==
    resp'.op = "health" =>
       /\ C21_Healthy(resp')
       /\ store' = store
       /\ req' = req

C21_HealthWhileConnected == []C21_Inv /\ [][C21_Step]_vars

\* C21's case: the health check answered while a product is stored deleted
\* and another request is suspended at its store call.
C21_Witness ==
    /\ resp.op = "health"
    /\ C21_Healthy(resp)
    /\ \E i \in Ids : StoredDeleted(i)
    /\ ~Quiescent

\* C22: an Update or Delete that fails with NotFound (404) or AlreadyDeleted
\* (410) writes nothing: the step that answers it leaves the whole store as
\* it was and suspends no request at a store write; and only an Update or
\* Delete whose product was found stored and not deleted goes on to
\* ProductRepository.update.
C22_Failed(r) ==
    /\ r.op \in {"update", "delete"}
    /\ r.status \in {HTTP_404_NOT_FOUND, HTTP_410_GONE}

C22_Step ==
    /\ C22_Failed(resp') =>
          /\ store' = store
          /\ req' = req
          /\ admitted' = admitted
          /\ \A i \in Ids :
                 Val(resp'.product_id) = UUID(i) =>
                    IF resp'.status = HTTP_404_NOT_FOUND
                    THEN StoredDoc(i) = None
                    ELSE StoredDeleted(i)
    /\ \A s \in Slots :
          (req[s].pc = "idle" /\ req'[s].pc = "loaded") =>
             /\ store' = store
             /\ \A i \in Ids :
                    Val(req'[s].product_id) = UUID(i) =>
                       StoredDoc(i) # None /\ ~StoredDeleted(i)

C22_FailedRequestWritesNothing == [][C22_Step]_vars

\* C22's case: a Delete of a product stored deleted was answered 410 while
\* another product is stored active.
C22_Witness ==
    /\ resp.op = "delete"
    /\ resp.status = HTTP_410_GONE
    /\ \E i, j \in Ids :
          /\ resp.product_id = Some(UUID(i))
          /\ StoredDeleted(i)
          /\ StoredDoc(j) # None /\ ~StoredDeleted(j)

\* C23: ProductRepository.update of a product whose id matches no stored
\* document, when its update_one goes through, raises nothing, returns the
\* product it was given and leaves the collection as it was: it never adds a
\* document.
C23_Step ==
    \A p \in SampleProducts :
       (/\ svc' # None
        /\ Val(svc').op = "update"
        /\ Val(svc').product = Some(p)
        /\ Val(svc').ok
        /\ Matching(store, UUIDToStr(p.id)) = {}) =>
          /\ Val(svc').out = Return(p)
          /\ store' = store

C23_UpdateOfAbsentIsNoOp == [][C23_Step]_vars

\* C23's case: an update of a product with no stored document returned the
\* product, and the collection, which holds another product, still has no
\* document of that id.
C23_Witness ==
    /\ svc # None
    /\ Val(svc).op = "update"
    /\ Val(svc).ok
    /\ Val(svc).out.exc = "none"
    /\ Val(svc).out.value = Val(svc).product
    /\ Matching(store, UUIDToStr(Val(Val(svc).product).id)) = {}
    /\ store # <<>>

\* C24: a store call that fails inside any of the six repository operations
\* comes out as a DatabaseException whose message carries the driver's, with
\* the collection as the failed call left it; the service passes the
\* exception on and the handler answers 500 with that message. A request
\* answered 500 leaves the store as it was and ends there: it is suspended at
\* no further store call.
C24_Storage(out) ==
    /\ out.exc = "DatabaseException"
    /\ out.message[1] = "Database error: "
    /\ out.message[2][2] \in {DriverError, DuplicateKeyError}

C24_Held == {Val(req[s].product) : s \in {q \in Slots : req[q].product # None}}

C24_Answered500(op, product_id, out) ==
    /\ Handler(op, product_id, out).status = HTTP_500_INTERNAL_SERVER_ERROR
    /\ Handler(op, product_id, out).detail = Some(out.message)

C24_Inv ==
    /\ \A p \in SampleProducts \cup C24_Held :
          /\ repository_create(store, p, FALSE).coll = store
          /\ C24_Storage(repository_create(store, p, FALSE).out)
          /\ C24_Answered500("create", None, repository_create(store, p, FALSE).out)
          /\ repository_update(store, p, FALSE).coll = store
          /\ C24_Storage(repository_update(store, p, FALSE).out)
          /\ update_product_write(store, p, FALSE) = repository_update(store, p, FALSE)
          /\ delete_product_write(store, p, FALSE) = repository_update(store, p, FALSE)
          /\ C24_Answered500("update", Some(p.id), repository_update(store, p, FALSE).out)
          /\ C24_Answered500("delete", Some(p.id), repository_update(store, p, FALSE).out)
    /\ \A i \in Ids :
          /\ C24_Storage(repository_find_by_id(store, UUID(i), FALSE))
          /\ get_product_by_id(repository_find_by_id(store, UUID(i), FALSE), UUID(i))
                = repository_find_by_id(store, UUID(i), FALSE)
          /\ update_product_load(repository_find_by_id(store, UUID(i), FALSE), UUID(i))
                = repository_find_by_id(store, UUID(i), FALSE)
          /\ delete_product_load(repository_find_by_id(store, UUID(i), FALSE), UUID(i))
                = repository_find_by_id(store, UUID(i), FALSE)
          /\ \A op \in ByIdOps :
                 C24_Answered500(op, Some(UUID(i)),
                                 repository_find_by_id(store, UUID(i), FALSE))
          /\ repository_delete(store, UUID(i), FALSE).coll = store
          /\ C24_Storage(repository_delete(store, UUID(i), FALSE).out)
          /\ C24_Storage(repository_exists(store, UUID(i), FALSE))
    /\ \A include_deleted \in BOOLEAN :
          C24_Storage(repository_find_all(store, include_deleted, FALSE))
    /\ get_all_products(store, FALSE) = repository_find_all(store, FALSE, FALSE)
    /\ C24_Answered500("list", None, get_all_products(store, FALSE))

C24_Step ==
    resp'.status = HTTP_500_INTERNAL_SERVER_ERROR =>
       /\ store' = store
       /\ admitted' = admitted
       /\ \A s \in Slots : req'[s] = req[s] \/ req'[s] = IdleRequest
       /\ resp'.detail # None
       /\ Val(resp'.detail)[1] = "Database error: "
       /\ Val(resp'.detail)[2][2] \in {DriverError, DuplicateKeyError}

C24_StorageFailureIs500 == []C24_Inv /\ [][C24_Step]_vars

\* C24's case: the update_one of an Update that set the price failed; the
\* request was answered 500 with the repository's message and the stored
\* price is the one from before.
C24_Witness ==
    /\ resp.op = "update"
    /\ resp.status = HTTP_500_INTERNAL_SERVER_ERROR
    /\ resp.body = Some([price |-> Some(2)])
    /\ resp.detail = Some(DatabaseException(<<"Failed to update product: ", DriverError>>))
    /\ \E i \in Ids :
          /\ resp.product_id = Some(UUID(i))
          /\ StoredDoc(i) # None
          /\ Val(StoredDoc(i)).price = 1
    /\ Quiescent

\* C25: ProductRepository.delete(id), when its delete_one goes through,
\* returns true exactly when a document of that id was stored before the
\* call; afterwards no document of that id is stored and the other documents
\* are the ones from before, in their order; when none was stored it returns
\* false and the collection is as it was.
C25_Others(coll, id) == SelectSeq(coll, LAMBDA d : d.id # id)

C25_Step ==
    \A i \in Ids :
       (/\ svc' # None
        /\ Val(svc').op = "delete"
        /\ Val(svc').product_id = Some(UUID(i))
        /\ Val(svc').ok) =>
          /\ Val(svc').out.exc = "none"
          /\ Val(svc').out.value = Some(Matching(store, UUIDToStr(UUID(i))) # {})
          /\ Matching(store', UUIDToStr(UUID(i))) = {}
          /\ store' = C25_Others(store, UUIDToStr(UUID(i)))
          /\ Matching(store, UUIDToStr(UUID(i))) = {} => store' = store

C25_HardDelete == [][C25_Step]_vars

\* C25's case: a delete returned true, and the collection holds the other
\* product but no document of the deleted id.
C25_Witness ==
    /\ svc # None
    /\ Val(svc).op = "delete"
    /\ Val(svc).ok
    /\ Val(svc).out.value = Some(TRUE)
    /\ \E i \in Ids :
          /\ Val(svc).product_id = Some(UUID(i))
          /\ Matching(store, UUIDToStr(UUID(i))) = {}
    /\ Len(store) = 1

\* C26: under any interleaving of requests at most one Delete of a given
\* product id is answered 200: a Delete of an id that a Delete was already
\* answered 200 for fails with 404 or 410 (or 500, when its store call
\* failed).
C26_AtMostOneDelete ==
    [][\A i \in Ids :
          (/\ resp'.op = "delete"
           /\ resp'.product_id = Some(UUID(i))
           /\ UUID(i) \in deleted) =>
             resp'.status \in {HTTP_404_NOT_FOUND, HTTP_410_GONE,
                               HTTP_500_INTERNAL_SERVER_ERROR}]_vars

\* C27: no store call is made again and every request runs to completion.
\* A request makes at most one read call (find_one or find) and at most one
\* write call (insert_one or update_one) on the collection; each step moves
\* one request: it is answered on arrival, or suspended at a store call
\* without an answer, or resumed without an answer, or resumed and answered,
\* which ends it; and every suspended request is eventually answered.
C27_Inv ==
    /\ resp.reads <= 1 /\ resp.writes <= 1
    /\ \A s \in Slots : req[s].reads <= 1 /\ req[s].writes <= 1

C27_Step ==
    \/ /\ req' = req
       /\ resp' # NoResponse
    \/ \E s \in Slots :
          /\ \A q \in Slots \ {s} : req'[q] = req[q]
          /\ \/ /\ req[s].pc = "idle" /\ req'[s].pc # "idle"
                /\ resp' = NoResponse
             \/ /\ req[s].pc # "idle" /\ req'[s].pc \notin {"idle", req[s].pc}
                /\ req'[s].op = req[s].op
                /\ resp' = NoResponse
             \/ /\ req[s].pc # "idle" /\ req'[s] = IdleRequest
                /\ resp' # NoResponse
                /\ resp'.op = req[s].op
                /\ resp'.reads = req[s].reads /\ resp'.writes = req[s].writes

C27_Completes == \A s \in Slots : (req[s].pc # "idle") ~> (req[s].pc = "idle")

C27_RunsToCompletionOnce == []C27_Inv /\ [][C27_Step]_vars /\ C27_Completes

\* C27's case: an Update whose update_one failed was answered 500 after one
\* read and one write, and no request is left suspended.
C27_Witness ==
    /\ resp.op = "update"
    /\ resp.status = HTTP_500_INTERNAL_SERVER_ERROR
    /\ resp.reads = 1
    /\ resp.writes = 1
    /\ Quiescent

\* C28: a request touches only its own product, under any interleaving. A
\* step that answers a Get by id, a listing or a health check leaves the
\* store as it was; the store changes only in the step that completes the
\* write of a Create, Update or Delete, and that step leaves the stored
\* document of every id other than its product's as it was.
C28_Step ==
    /\ resp'.op \in {"get", "list", "health"} => store' = store
    /\ store' # store =>
          \E s \in Slots :
             /\ req[s].pc \in {"insert", "write"}
             /\ req'[s] = IdleRequest
             /\ resp'.op = req[s].op
             /\ resp'.op \in {"create", "update", "delete"}
             /\ \A j \in Ids :
                    UUID(j) # Val(req[s].product).id =>
                       StoredDoc(j)' = StoredDoc(j)

C28_OnlyOwnProduct == [][C28_Step]_vars

\* C28's case: of two stored products one was updated to a new price and
\* the other still has the price and the updatedAt it was created with.
C28_Witness ==
    /\ resp.op = "update"
    /\ resp.status = HTTP_200_OK
    /\ \E i, j \in Ids :
          /\ i # j
          /\ resp.product_id = Some(UUID(i))
          /\ StoredDoc(i) # None /\ Val(StoredDoc(i)).price = 2
          /\ StoredDoc(j) # None /\ Val(StoredDoc(j)).price = 1
          /\ Val(StoredDoc(j)).updatedAt = Val(StoredDoc(j)).createdAt

\* C29: after a connect_db that failed partway (the client was created and
\* a create_index raised), get_collection still raises the not-connected
\* RuntimeError: no collection handle is exposed.
C29_NoHandleAfterFailedConnect ==
    phase = "failed" =>
       get_collection(collection)
          = Raise("RuntimeError",
                  <<"Database not connected. Call connect_db() first.">>)

\* C30: an Update whose body sets a field to an explicit null is handled as
\* one whose body omits the field: the schema accepts it, the product it
\* writes is the one the body without the field would write, and the stored
\* value is kept. No Update, in any sequence of requests handled one at a
\* time, takes a stored description that is present to absent.
C30_Null(F) == [f \in F |-> None]

C30_Inv ==
    /\ \A F \in SUBSET UpdateFields : ProductUpdate(C30_Null(F))
    /\ \A s \in Slots :
          (req[s].pc = "loaded" /\ req[s].op = "update") =>
             \A F \in SUBSET UpdateFields, utcnow \in now..MaxClock :
                update_product_apply(Val(req[s].product),
                                     ParseUpdate(C30_Null(F)), utcnow)
                   = update_product_apply(Val(req[s].product),
                                          ParseUpdate(C30_Null({})), utcnow)
    /\ \A s \in Slots :
          (req[s].pc = "write" /\ req[s].op = "update"
             /\ req[s].body = Some(C30_Null({"description"}))) =>
             \A i \in Ids :
                req[s].product_id = Some(UUID(i)) =>
                   /\ StoredDoc(i) # None
                   /\ Val(req[s].product).description = Val(StoredDoc(i)).description

C30_Step ==
    \A i \in Ids :
       (StoredDoc(i) # None /\ Val(StoredDoc(i)).description # None) =>
          /\ StoredDoc(i)' # None
          /\ Val(StoredDoc(i))'.description # None
          /\ (resp'.op = "update" /\ resp'.body = Some(C30_Null({"description"}))
                 /\ resp'.product_id = Some(UUID(i))) =>
                Val(StoredDoc(i))'.description = Val(StoredDoc(i)).description

C30_NullIsOmitted == []C30_Inv /\ [][C30_Step]_vars

\* C30's case: an Update with an explicit null description was answered 200
\* and the stored description is still the one the product was created with.
C30_Witness ==
    /\ resp.op = "update"
    /\ resp.status = HTTP_200_OK
    /\ resp.body = Some(C30_Null({"description"}))
    /\ Val(resp.product).description = Some(Text("d"))
    /\ \E i \in Ids :
          /\ resp.product_id = Some(UUID(i))
          /\ StoredDoc(i) # None
          /\ Val(StoredDoc(i)).description = Some(Text("d"))
          /\ Val(StoredDoc(i)).updatedAt # Val(StoredDoc(i)).createdAt

====
